---- MODULE Spec2Model ----
(***************************************************************************)
(* Memory and learning consolidation engine of the personal AI agent       *)
(* backend: the LearningData fact records and their reinforcement          *)
(* dynamics, the merge and archival passes of MemoryService, the retrieval *)
(* path, and the request / background-task pipeline that feeds them.       *)
(*                                                                         *)
(* Conventions                                                             *)
(*  - Float columns (confidence, validation_score, relevance) are fixed    *)
(*    point numbers with Scale units for 1.0; products and quotients       *)
(*    truncate.                                                            *)
(*  - Datetimes are whole hours since service start (variable now).        *)
(*  - A row's UUID primary key is a positive integer; None is 0 for a      *)
(*    foreign id.                                                          *)
(***************************************************************************)
EXTENDS Integers, Sequences, FiniteSets, TLC

VARIABLES
    facts,        \* learning_data table (committed rows): id -> row
    nextId,       \* next fresh primary key of each table
    now,          \* datetime.utcnow(), in hours
    retrieved,    \* value the read path returned in the step just taken, with its
                  \* arguments (NoResult after any other step)
    profiles,     \* user_profiles table (committed rows): user_id -> row
    convs,        \* conversations table (committed rows): sequence of rows
    summaries,    \* conversation_summaries table (committed rows): set of rows
    requests,     \* send_message requests suspended in generate_response
    tasks,        \* update_learning background tasks: scheduled or suspended
    consolidated  \* history: users with a completed consolidation run and nothing
                  \* written or elapsed since

vars == <<facts, nextId, now, retrieved, profiles, convs, summaries, requests,
          tasks, consolidated>>

-----------------------------------------------------------------------------
(* Bounds of the model *)

MaxFacts == 2
MaxEvidence == 4
MaxConsolidationEvidence == 5
MaxMessages == 10
MaxInFlight == 2
MaxTriggerMessages == 52
MaxVolumeFacts == 21
MaxHours == 2
MaxSummaryHours == 25
MaxSendHour == 2
MaxSummaryMessages == 11
MaxManualMessages == 4
MaxProfileMessages == 10

-----------------------------------------------------------------------------
(* Program constants *)

Scale == 10000
HoursPerDay == 24
ArchiveDays == 30
QueryLimit == 20
SummaryWindowHours == 24
SummaryGuardHours == 25
MinSummaryMessages == 10
DefaultLimit == 5
LEARNING_UPDATE_INTERVAL == 10
RecentLimit == 20
TriggerLimit == 10
AnalysisWindow == 10
Limits == {1, DefaultLimit}
ContextTop == 3
consolidation_threshold == 100
ActiveLearningCeiling == 200

None == 0
NoConfidence == -1

Users == {"u1", "u2"}

(* Service start, and an instant more than ArchiveDays later. *)
Instants == {0, 744}

PersonalFactConfidence == 8000
PreferenceConfidence == 7000
TopicConfidence == 6000
FeedbackConfidence == 10000

ObservedConfidences == {1000, 9000}

(* len(message.content) of the messages sent. *)
MessageLengths == {20}

(* The (learning_type, key, value, confidence) shapes the program creates. *)
Templates ==
    {[learning_type |-> "personal_fact", key |-> "city", value |-> "paris",
      confidence |-> PersonalFactConfidence],
     [learning_type |-> "communication_preference", key |-> "tone", value |-> "casual",
      confidence |-> PreferenceConfidence],
     [learning_type |-> "topic_interest", key |-> "topic", value |-> "jazz",
      confidence |-> TopicConfidence],
     [learning_type |-> "topic_interest", key |-> "topic", value |-> "cars",
      confidence |-> TopicConfidence],
     [learning_type |-> "feedback", key |-> "response_quality", value |-> "helpful",
      confidence |-> FeedbackConfidence]}

Min(a, b) == IF a <= b THEN a ELSE b
Max(a, b) == IF a >= b THEN a ELSE b

-----------------------------------------------------------------------------
(* LearningData: the fact record and its methods *)

LearningData(u, tpl, t) ==
    [user_id |-> u,
     learning_type |-> tpl.learning_type,
     key |-> tpl.key,
     value |-> tpl.value,
     confidence |-> tpl.confidence,
     times_observed |-> 1,
     times_reinforced |-> 0,
     times_contradicted |-> 0,
     last_observed |-> t,
     created_at |-> t,
     is_active |-> TRUE,
     superseded_by |-> None,
     validation_score |-> 0]

calculate_validation_score(r) ==
    LET total_feedback == r.times_reinforced + r.times_contradicted
        reinforcement_ratio == (r.times_reinforced * Scale) \div total_feedback
        observation_bonus == Min((r.times_observed * Scale) \div 10, Scale \div 5)
    IN  IF total_feedback = 0 THEN 0
        ELSE Min(reinforcement_ratio + observation_bonus, Scale)

Boost(c) == Min((c * 11) \div 10, Scale)

reinforce_without_observation(r, new_confidence, t) ==
    LET r1 == [r EXCEPT !.times_reinforced = @ + 1,
                        !.last_observed = t]
        weight == Min(r1.times_reinforced, 5)
        r2 == [r1 EXCEPT !.confidence =
                  IF new_confidence # NoConfidence
                  THEN (weight * new_confidence + (10 - weight) * @) \div 10
                  ELSE Boost(@)]
    IN  [r2 EXCEPT !.validation_score = calculate_validation_score(r2)]

reinforce_reactivates(r, new_confidence, t) ==
    LET r1 == [r EXCEPT !.times_reinforced = @ + 1,
                        !.times_observed = @ + 1,
                        !.last_observed = t]
        weight == Min(r1.times_reinforced, 5)
        r2 == [r1 EXCEPT !.confidence =
                  IF new_confidence # NoConfidence
                  THEN (weight * new_confidence + (10 - weight) * @) \div 10
                  ELSE Boost(@)]
        r3 == [r2 EXCEPT !.validation_score = calculate_validation_score(r2)]
    IN  IF r3.times_contradicted > r3.times_reinforced + 2
        THEN r3
        ELSE [r3 EXCEPT !.is_active = TRUE]

reinforce(r, new_confidence, t) ==
    LET r1 == [r EXCEPT !.times_reinforced = @ + 1,
                        !.times_observed = @ + 1,
                        !.last_observed = t]
        weight == Min(r1.times_reinforced, 5)
        r2 == [r1 EXCEPT !.confidence =
                  IF new_confidence # NoConfidence
                  THEN (weight * new_confidence + (10 - weight) * @) \div 10
                  ELSE Boost(@)]
    IN  [r2 EXCEPT !.validation_score = calculate_validation_score(r2)]

contradict_without_floor(r, t) ==
    LET r1 == [r EXCEPT !.times_contradicted = @ + 1,
                        !.times_observed = @ + 1,
                        !.last_observed = t,
                        !.confidence = @ - Scale \div 5]
        r2 == [r1 EXCEPT !.validation_score = calculate_validation_score(r1)]
    IN  IF r2.times_contradicted > r2.times_reinforced + 2
        THEN [r2 EXCEPT !.is_active = FALSE]
        ELSE r2

contradict(r, t) ==
    LET r1 == [r EXCEPT !.times_contradicted = @ + 1,
                        !.times_observed = @ + 1,
                        !.last_observed = t,
                        !.confidence = Max(@ - Scale \div 5, Scale \div 10)]
        r2 == [r1 EXCEPT !.validation_score = calculate_validation_score(r1)]
    IN  IF r2.times_contradicted > r2.times_reinforced + 2
        THEN [r2 EXCEPT !.is_active = FALSE]
        ELSE r2

supersede_with_keeps_active(r, new_learning_id) ==
    [r EXCEPT !.superseded_by = new_learning_id]

supersede_with(r, new_learning_id) ==
    [r EXCEPT !.is_active = FALSE, !.superseded_by = new_learning_id]

-----------------------------------------------------------------------------
(* MemoryService: merge pass *)

AnyStateIds(tbl, u) == {i \in DOMAIN tbl : tbl[i].user_id = u}

(* filter(user_id == user_id, is_active == True) *)
ActiveIds(tbl, u) == {i \in DOMAIN tbl : tbl[i].user_id = u /\ tbl[i].is_active}

GroupKey(r) == <<r.learning_type, r.key>>

Group(tbl, u, g) == {i \in ActiveIds(tbl, u) : GroupKey(tbl[i]) = g}

(* The groups with multiple entries, i.e. those the pass rewrites. *)
MergeGroups(tbl, u) ==
    {g \in {GroupKey(tbl[i]) : i \in ActiveIds(tbl, u)} :
        Cardinality(Group(tbl, u, g)) > 1}

(* ORDER BY learning_type, key: the position of a group key in the result. *)
GroupOrder ==
    <<<<"communication_preference", "tone">>, <<"feedback", "response_quality">>,
      <<"personal_fact", "city">>, <<"topic_interest", "topic">>>>

GroupRank(g) == CHOOSE n \in 1..Len(GroupOrder) : GroupOrder[n] = g

AnyConfidence(tbl, ids) == ids

(* max(learnings, key=confidence): the first row of highest confidence in the
   order the store returned the group, which ORDER BY learning_type, key leaves
   open among rows of one group. *)
HighestConfidence(tbl, ids) ==
    {i \in ids : \A j \in ids : tbl[j].confidence <= tbl[i].confidence}

Primaries(tbl, u) ==
    {p \in [MergeGroups(tbl, u) -> DOMAIN tbl] :
        \A g \in MergeGroups(tbl, u) : p[g] \in HighestConfidence(tbl, Group(tbl, u, g))}

RECURSIVE SumField(_, _, _)
SumField(tbl, ids, f) ==
    IF ids = {} THEN 0
    ELSE LET i == CHOOSE x \in ids : TRUE
         IN  tbl[i][f] + SumField(tbl, ids \ {i}, f)

NewestObserved(tbl, ids) ==
    CHOOSE t \in {tbl[i].last_observed : i \in ids} :
        \A i \in ids : tbl[i].last_observed <= t

MergeOthersDropsContradictions(primary, others, tbl) ==
    LET r == tbl[primary]
        r1 == [r EXCEPT
                 !.times_observed = @ + SumField(tbl, others, "times_observed"),
                 !.times_reinforced = @ + SumField(tbl, others, "times_reinforced"),
                 !.last_observed = NewestObserved(tbl, others \cup {primary}),
                 !.confidence = Boost(@)]
    IN  [r1 EXCEPT !.validation_score = calculate_validation_score(r1)]

MergeOthersKeepsScore(primary, others, tbl) ==
    LET r == tbl[primary]
    IN  [r EXCEPT
           !.times_observed = @ + SumField(tbl, others, "times_observed"),
           !.times_reinforced = @ + SumField(tbl, others, "times_reinforced"),
           !.times_contradicted = @ + SumField(tbl, others, "times_contradicted"),
           !.last_observed = NewestObserved(tbl, others \cup {primary}),
           !.confidence = Boost(@)]

MergeOthers(primary, others, tbl) ==
    LET r == tbl[primary]
        r1 == [r EXCEPT
                 !.times_observed = @ + SumField(tbl, others, "times_observed"),
                 !.times_reinforced = @ + SumField(tbl, others, "times_reinforced"),
                 !.times_contradicted = @ + SumField(tbl, others, "times_contradicted"),
                 !.last_observed = NewestObserved(tbl, others \cup {primary}),
                 !.confidence = Boost(@)]
    IN  [r1 EXCEPT !.validation_score = calculate_validation_score(r1)]

MergeEntryStaysActive(other, primary, tbl) ==
    [tbl[other] EXCEPT !.superseded_by = primary]

MergeEntry(other, primary, tbl) ==
    [tbl[other] EXCEPT !.is_active = FALSE, !.superseded_by = primary]

(* The session's rows after the pass; an exception raised in the loop leaves
   the first upto groups merged (it is caught and logged by the pass). *)
merge_similar_learnings(tbl, u, primary, upto) ==
    LET groups == MergeGroups(tbl, u)
        done == {g \in groups :
                    Cardinality({h \in groups : GroupRank(h) < GroupRank(g)}) < upto}
    IN  [i \in DOMAIN tbl |->
            IF i \in ActiveIds(tbl, u) /\ GroupKey(tbl[i]) \in done
            THEN LET g == GroupKey(tbl[i])
                 IN  IF i = primary[g]
                     THEN MergeOthers(i, Group(tbl, u, g) \ {i}, tbl)
                     ELSE MergeEntry(i, primary[g], tbl)
            ELSE tbl[i]]

-----------------------------------------------------------------------------
(* MemoryService: archival pass *)

old_learnings_of_any_age(stored, u, t) ==
    {i \in DOMAIN stored :
        /\ stored[i].user_id = u
        /\ stored[i].is_active
        /\ stored[i].confidence < (3 * Scale) \div 10
        /\ stored[i].times_contradicted > stored[i].times_reinforced}

(* The rows the archival query selects. The WHERE clause is evaluated by the
   store, on the rows it holds. *)
old_learnings(stored, u, t) ==
    {i \in DOMAIN stored :
        /\ stored[i].user_id = u
        /\ stored[i].is_active
        /\ stored[i].confidence < (3 * Scale) \div 10
        /\ stored[i].last_observed < t - ArchiveDays * HoursPerDay
        /\ stored[i].times_contradicted > stored[i].times_reinforced}

(* The session's rows after the pass: the selected rows are the session's own
   objects (identity map), whose pending changes the query did not flush
   (autoflush=False) and does not overwrite. *)
archive_old_learnings(session, stored, u, t) ==
    [i \in DOMAIN session |->
        IF i \in old_learnings(stored, u, t)
        THEN [session[i] EXCEPT !.is_active = FALSE]
        ELSE session[i]]

-----------------------------------------------------------------------------
(* MemoryService: retrieval *)

(* The words of f"{key} {value} {context}" for a row; context is the fixed
   text its creator gives the learning_type. *)
ContextWords(learning_type) ==
    CASE learning_type = "personal_fact" -> {"learned", "from", "conversation", "analysis"}
      [] learning_type = "communication_preference" -> {"inferred", "communication", "preference"}
      [] learning_type = "topic_interest" -> {"topic", "mentioned", "in", "conversation"}
      [] OTHER -> {"user", "feedback", "on", "response", "quality"}

text_to_search(r) == {r.key, r.value} \cup ContextWords(r.learning_type)

(* keyword in text_to_search: a substring test. A keyword holds no space, so
   it occurs in the text iff it occurs in one of its words; Infixes lists the
   proper occurrences among the words used. *)
Infixes == {<<"car", "cars">>}

KeywordOccurs(keyword, words) ==
    \E w \in words : keyword = w \/ <<keyword, w>> \in Infixes

(* _extract_keywords on a text given as its lower-cased words: the regular
   expression keeps the words of three letters or more, the stop words are
   dropped, and the result is a set. *)
stop_words ==
    {"the", "a", "an", "and", "or", "but", "in", "on", "at", "to", "for", "of",
     "with", "by", "is", "are", "was", "were", "be", "been", "being", "have",
     "has", "had", "do", "does", "did", "will", "would", "could", "should",
     "may", "might", "must", "can", "this", "that", "these", "those", "i", "me",
     "my", "myself", "we", "us", "our", "you", "your", "he", "him", "his", "she",
     "her", "it", "its", "they", "them", "their"}

(* "What music do I like?" *)
MusicQuery == <<"what", "music", "do", "i", "like">>

WordLength == [what |-> 4, music |-> 5, do |-> 2, i |-> 1, like |-> 4]

extract_keywords(text) ==
    {text[n] : n \in {m \in DOMAIN text :
                        WordLength[text[m]] >= 3 /\ text[m] \notin stop_words}}

(* Keyword sets as _extract_keywords returns them for the queries asked. *)
Queries == {{}, {"jazz"}, {"what", "music", "like"}}

calculate_relevance_score(r, keywords, t) ==
    LET keyword_matches ==
            Cardinality({k \in keywords : KeywordOccurs(k, text_to_search(r))})
        keyword_part ==
            IF keywords = {} THEN 0
            ELSE (((keyword_matches * Scale) \div Cardinality(keywords)) * 6) \div 10
        days_since_observed == (t - r.last_observed) \div HoursPerDay
        recency_score == Max(0, Scale - (days_since_observed * Scale) \div 30)
        bonus == IF r.learning_type \in {"personal_fact", "communication_preference"}
                 THEN Scale \div 10 ELSE 0
    IN  Min(keyword_part + (recency_score * 2) \div 10 + (r.confidence * 2) \div 10 + bonus,
            Scale)

(* ORDER BY confidence DESC, last_observed DESC: the rows of ids that may
   come first, i.e. those no other row precedes on the two sort keys. *)
FirstRows(tbl, ids) ==
    {i \in ids :
        \A j \in ids :
            \/ tbl[j].confidence < tbl[i].confidence
            \/ /\ tbl[j].confidence = tbl[i].confidence
               /\ tbl[j].last_observed <= tbl[i].last_observed}

(* Every order of the first k rows of ids that respects the two sort keys
   (the store leaves the order of rows equal on both keys open). *)
RECURSIVE OrderedRows(_, _, _)
OrderedRows(tbl, ids, k) ==
    IF ids = {} \/ k = 0 THEN {<<>>}
    ELSE UNION {{<<i>> \o s : s \in OrderedRows(tbl, ids \ {i}, k - 1)} :
                   i \in FirstRows(tbl, ids)}

(* ORDER BY confidence DESC, last_observed DESC LIMIT 20 over the user's
   active rows. *)
QueryRows(tbl, u) == OrderedRows(tbl, ActiveIds(tbl, u), QueryLimit)

(* list.sort(key=relevance, reverse=True): stable, descending. *)
RECURSIVE SortByRelevance(_, _)
SortByRelevance(s, score) ==
    IF s = <<>> THEN <<>>
    ELSE LET n == CHOOSE a \in DOMAIN s :
                      /\ \A b \in DOMAIN s : score[s[b]] <= score[s[a]]
                      /\ \A b \in 1..(a - 1) : score[s[b]] < score[s[a]]
         IN  <<s[n]>> \o SortByRelevance(SubSeq(s, 1, n - 1) \o SubSeq(s, n + 1, Len(s)), score)

get_relevant_memories(tbl, u, keywords, limit, t, rows) ==
    LET score == [i \in DOMAIN tbl |-> calculate_relevance_score(tbl[i], keywords, t)]
        relevant == SelectSeq(rows, LAMBDA i : score[i] > Scale \div 10)
        sorted == SortByRelevance(relevant, score)
    IN  SubSeq(sorted, 1, Min(limit, Len(sorted)))

build_memory_context(tbl, u, keywords, t, rows) ==
    LET relevant_memories == get_relevant_memories(tbl, u, keywords, DefaultLimit, t, rows)
    IN  SubSeq(relevant_memories, 1, Min(ContextTop, Len(relevant_memories)))

-----------------------------------------------------------------------------
(* UserProfile and ConversationSummary rows *)

EmptyMap == [k \in {} |-> ""]

NoResult ==
    [op |-> "none", user_id |-> "", keywords |-> {}, limit |-> 0, result |-> <<>>,
     personal_facts |-> EmptyMap, communication_preferences |-> EmptyMap]

UserProfile(u, total) ==
    [user_id |-> u,
     personal_facts |-> EmptyMap,
     communication_preferences |-> EmptyMap,
     topics_of_interest |-> {},
     expertise_areas |-> {},
     avg_message_length |-> 0,
     formality_score |-> Scale \div 2,
     preferred_response_length |-> "medium",
     total_messages |-> total,
     total_conversations |-> 0]

RecentConversations(cv, u, t, hours) ==
    {n \in DOMAIN cv : cv[n].user_id = u /\ cv[n].timestamp > t - hours}

(* The summaries table after _create_recent_summary (nothing is added when
   the pass returns early). *)
create_recent_summary(cv, sm, u, t) ==
    LET recent_conversations == RecentConversations(cv, u, t, SummaryWindowHours)
        stamps == {cv[n].timestamp : n \in recent_conversations}
        existing_summary ==
            {x \in sm : x.user_id = u /\ x.start_time > t - SummaryGuardHours}
    IN  IF Cardinality(recent_conversations) < MinSummaryMessages THEN sm
        ELSE IF existing_summary # {} THEN sm
        ELSE sm \cup
               {[user_id |-> u,
                 start_time |-> CHOOSE a \in stamps : \A b \in stamps : a <= b,
                 end_time |-> CHOOSE a \in stamps : \A b \in stamps : a >= b,
                 message_count |-> Cardinality(recent_conversations),
                 conversation_ids |-> {cv[n].id : n \in recent_conversations},
                 summary_type |-> "automatic"]}

-----------------------------------------------------------------------------
(* MemoryService.should_consolidate_memory *)

should_consolidate_memory(cv, tbl, u, t) ==
    LET recent_messages == Cardinality(RecentConversations(cv, u, t, HoursPerDay))
        active_learning_count == Cardinality(ActiveIds(tbl, u))
    IN  \/ recent_messages > consolidation_threshold
        \/ active_learning_count > ActiveLearningCeiling

-----------------------------------------------------------------------------
(* MemoryService.consolidate_memory *)

(* What can go wrong in a run: an exception raised inside one pass (each pass
   catches and logs its own), after the merge loop has rewritten upto groups;
   or an error of the store, after which the transaction accepts no further
   statement, so that the profile query of the run raises. *)
NoFault == [step |-> "none", kind |-> "none", upto |-> 0]

Faults(tbl, u) ==
    {NoFault}
    \cup {[step |-> st, kind |-> "store", upto |-> 0] :
             st \in {"summary", "merge", "archive", "commit"}}
    \cup {[step |-> st, kind |-> "exception", upto |-> 0] : st \in {"summary", "archive"}}
    \cup {[step |-> "merge", kind |-> "exception", upto |-> n] :
             n \in 0..(Cardinality(MergeGroups(tbl, u)) - 1)}

(* The session after the three passes: <<learning_data rows, summaries>>. *)
ConsolidationSession(u, primary, fault) ==
    LET sm == IF fault.step = "summary" THEN summaries
              ELSE create_recent_summary(convs, summaries, u, now)
        merged == merge_similar_learnings(facts, u, primary,
                      IF fault.step = "merge" THEN fault.upto
                      ELSE Cardinality(MergeGroups(facts, u)))
        archived == IF fault.step = "archive" THEN merged
                    ELSE archive_old_learnings(merged, facts, u, now)
    IN  <<archived, sm>>

(* The run reaches db.commit() only if nothing raised outside the passes:
   user_profile.calculate_profile_completeness() raises AttributeError when
   the user has a profile row (UserProfile defines no such method). *)
ConsolidationCommits(u, fault) ==
    /\ fault.kind # "store"
    /\ u \notin DOMAIN profiles

(* The store after the run: db.commit() writes the session, db.rollback()
   leaves the store as it was. *)
ConsolidationResult(u, primary, fault) ==
    IF ConsolidationCommits(u, fault)
    THEN ConsolidationSession(u, primary, fault)
    ELSE <<facts, summaries>>

consolidate_memory(u, primary, fault) ==
    /\ primary \in Primaries(facts, u)
    /\ fault \in Faults(facts, u)
    /\ facts' = ConsolidationResult(u, primary, fault)[1]
    /\ summaries' = ConsolidationResult(u, primary, fault)[2]
    /\ consolidated' = IF fault = NoFault /\ ConsolidationCommits(u, fault)
                       THEN consolidated \cup {u}
                       ELSE consolidated \ {u}
    /\ retrieved' = NoResult
    /\ UNCHANGED <<nextId, now, profiles, convs, requests, tasks>>

-----------------------------------------------------------------------------
(* Initial state: empty tables, no request or task *)

Init ==
    /\ facts = [i \in {} |-> 0]
    /\ nextId = [learning_data |-> 1, conversations |-> 1]
    /\ now = 0
    /\ retrieved = NoResult
    /\ profiles = [u \in {} |-> 0]
    /\ convs = <<>>
    /\ summaries = {}
    /\ requests = {}
    /\ tasks = {}
    /\ consolidated = {}

-----------------------------------------------------------------------------
(* Operations of the engine, each on the committed store *)

(* Evidence events recorded in the table. *)
Evidence(tbl) ==
    SumField(tbl, DOMAIN tbl, "times_reinforced") + SumField(tbl, DOMAIN tbl, "times_contradicted")

Tick(t) ==
    /\ t \in Instants
    /\ t > now
    /\ now' = t
    /\ consolidated' = {}
    /\ retrieved' = NoResult
    /\ UNCHANGED <<facts, nextId, profiles, convs, summaries, requests, tasks>>

(* An hour passes. *)
Elapse ==
    /\ now' = now + 1
    /\ consolidated' = {}
    /\ retrieved' = NoResult
    /\ UNCHANGED <<facts, nextId, profiles, convs, summaries, requests, tasks>>

(* db.add(LearningData(...)); db.commit() *)
CreateFact(u, tpl) ==
    /\ facts' = facts @@ (nextId.learning_data :> LearningData(u, tpl, now))
    /\ nextId' = [nextId EXCEPT !.learning_data = @ + 1]
    /\ consolidated' = consolidated \ {u}
    /\ retrieved' = NoResult
    /\ UNCHANGED <<now, profiles, convs, summaries, requests, tasks>>

Reinforce(i, new_confidence) ==
    /\ i \in DOMAIN facts
    /\ facts' = [facts EXCEPT ![i] = reinforce(@, new_confidence, now)]
    /\ consolidated' = consolidated \ {facts[i].user_id}
    /\ retrieved' = NoResult
    /\ UNCHANGED <<nextId, now, profiles, convs, summaries, requests, tasks>>

Contradict(i) ==
    /\ i \in DOMAIN facts
    /\ facts' = [facts EXCEPT ![i] = contradict(@, now)]
    /\ consolidated' = consolidated \ {facts[i].user_id}
    /\ retrieved' = NoResult
    /\ UNCHANGED <<nextId, now, profiles, convs, summaries, requests, tasks>>

SupersedeWith(i, j) ==
    /\ i \in DOMAIN facts
    /\ j \in DOMAIN facts
    /\ j > i
    /\ facts[j].user_id = facts[i].user_id
    /\ facts[i].superseded_by = None
    /\ facts' = [facts EXCEPT ![i] = supersede_with(@, j)]
    /\ consolidated' = consolidated \ {facts[i].user_id}
    /\ retrieved' = NoResult
    /\ UNCHANGED <<nextId, now, profiles, convs, summaries, requests, tasks>>

(* _merge_similar_learnings(user_id, db) on a fresh session, then db.commit() *)
MergePass(u, primary) ==
    /\ primary \in Primaries(facts, u)
    /\ facts' = merge_similar_learnings(facts, u, primary, Cardinality(MergeGroups(facts, u)))
    /\ consolidated' = consolidated \ {u}
    /\ retrieved' = NoResult
    /\ UNCHANGED <<nextId, now, profiles, convs, summaries, requests, tasks>>

(* _archive_old_learnings(user_id, db) on a fresh session, then db.commit() *)
ArchivePass(u) ==
    /\ facts' = archive_old_learnings(facts, facts, u, now)
    /\ consolidated' = consolidated \ {u}
    /\ retrieved' = NoResult
    /\ UNCHANGED <<nextId, now, profiles, convs, summaries, requests, tasks>>

GetRelevantMemories(u, keywords, limit, rows) ==
    /\ rows \in QueryRows(facts, u)
    /\ retrieved' = [op |-> "get_relevant_memories", user_id |-> u,
                     keywords |-> keywords, limit |-> limit,
                     result |-> get_relevant_memories(facts, u, keywords, limit, now, rows),
                     personal_facts |-> EmptyMap,
                     communication_preferences |-> EmptyMap]
    /\ UNCHANGED <<facts, nextId, now, profiles, convs, summaries, requests, tasks,
                   consolidated>>

(* The three parts of the context string, in its order: the profile's
   personal facts, the top relevant memories, the profile's communication
   preferences. *)
BuildMemoryContext(u, keywords, rows) ==
    /\ rows \in QueryRows(facts, u)
    /\ retrieved' = [op |-> "build_memory_context", user_id |-> u,
                     keywords |-> keywords, limit |-> ContextTop,
                     result |-> build_memory_context(facts, u, keywords, now, rows),
                     personal_facts |->
                         IF u \in DOMAIN profiles THEN profiles[u].personal_facts
                         ELSE EmptyMap,
                     communication_preferences |->
                         IF u \in DOMAIN profiles THEN profiles[u].communication_preferences
                         ELSE EmptyMap]
    /\ UNCHANGED <<facts, nextId, now, profiles, convs, summaries, requests, tasks,
                   consolidated>>

(* process_new_conversations(user_id, []) for a user without stored turns:
   the profile row is created if missing; there is nothing to analyse. *)
ProcessNoConversations(u) ==
    /\ \A n \in DOMAIN convs : convs[n].user_id # u
    /\ u \notin DOMAIN profiles
    /\ profiles' = profiles @@ (u :> UserProfile(u, 0))
    /\ retrieved' = NoResult
    /\ UNCHANGED <<facts, nextId, now, convs, summaries, requests, tasks, consolidated>>

-----------------------------------------------------------------------------
(* The merge pass over stores built by create, reinforce and contradict *)

Template(v) == CHOOSE tpl \in Templates : tpl.value = v

CounterFields == {"times_observed", "times_reinforced", "times_contradicted"}

MergeNext ==
    \/ \E c \in {<<"u1", "jazz">>, <<"u1", "cars">>, <<"u2", "jazz">>} :
          nextId.learning_data <= MaxFacts /\ CreateFact(c[1], Template(c[2]))
    \/ \E i \in DOMAIN facts : Evidence(facts) < MaxEvidence /\ Reinforce(i, NoConfidence)
    \/ \E i \in DOMAIN facts : Evidence(facts) < MaxEvidence /\ Contradict(i)
    \/ \E u \in Users : \E primary \in Primaries(facts, u) : MergePass(u, primary)

MergeSpec == Init /\ [][MergeNext]_vars

(* C1: a merge pass leaves, for every group of two or more active facts of
   the user sharing (learning_type, key), exactly one active record of the
   group, and each of its counters times_observed, times_reinforced and
   times_contradicted equals the sum of that counter over the records that
   were in the group before the pass. *)
C1_MergeConservesEvidence ==
    [][\A u \in Users : \A primary \in Primaries(facts, u) :
          MergePass(u, primary) =>
            \A g \in MergeGroups(facts, u) :
                \E s \in Group(facts, u, g) :
                    /\ Group(facts', u, g) = {s}
                    /\ \A f \in CounterFields :
                          facts'[s][f] = SumField(facts, Group(facts, u, g), f)]_vars

(* C1 witness: a survivor of a merge that carries reinforcements and
   contradictions folded in from the record it superseded. *)
C1_Witness ==
    \E i, s \in DOMAIN facts :
        /\ facts[i].superseded_by = s
        /\ facts[s].is_active
        /\ facts[i].times_reinforced > 0
        /\ facts[i].times_contradicted > 0
        /\ facts[s].times_reinforced > facts[i].times_reinforced
        /\ facts[s].times_contradicted >= facts[i].times_contradicted

(* C9: the state a merge pass leaves is a fixed point of the merge pass:
   running it again changes no field of any record, whichever primary the
   second run would pick. *)
C9_MergeIdempotent ==
    [][\A u \in Users : \A primary \in Primaries(facts, u) :
          MergePass(u, primary) =>
            \A again \in Primaries(facts', u) :
                merge_similar_learnings(facts', u, again,
                                        Cardinality(MergeGroups(facts', u))) = facts']_vars

(* C9 witness: a store on which the pass has merged a group, so that the
   survivor carries the folded observations and no group is left to merge. *)
C9_Witness ==
    \E i \in DOMAIN facts :
        /\ facts[i].superseded_by # None
        /\ MergeGroups(facts, facts[i].user_id) = {}
        /\ facts[facts[i].superseded_by].times_observed > 2

(* C28: after a merge pass the user has at most one active topic_interest
   fact, whatever the topic values were: every topic fact is stored under the
   key "topic", so the active ones form one group, of which a record of
   highest confidence stays active and every other one is deactivated and
   superseded by it. *)
C28_OneActiveTopicAfterMerge ==
    [][\A u \in Users : \A primary \in Primaries(facts, u) :
          MergePass(u, primary) =>
            LET before == {i \in ActiveIds(facts, u) :
                              facts[i].learning_type = "topic_interest"}
                after == {i \in ActiveIds(facts', u) :
                              facts'[i].learning_type = "topic_interest"}
            IN  /\ \A i \in before : facts[i].key = "topic"
                /\ Cardinality(after) <= 1
                /\ before # {} =>
                      \E s \in before :
                          /\ after = {s}
                          /\ \A i \in before : facts[i].confidence <= facts[s].confidence
                          /\ \A i \in before \ {s} :
                                /\ ~facts'[i].is_active
                                /\ facts'[i].superseded_by = s]_vars

(* C28 witness: two topic facts of different values, one of them deactivated
   and superseded by the other, which stays active. *)
C28_Witness ==
    \E i, s \in DOMAIN facts :
        /\ facts[i].learning_type = "topic_interest"
        /\ facts[s].learning_type = "topic_interest"
        /\ facts[i].value # facts[s].value
        /\ facts[i].superseded_by = s
        /\ ~facts[i].is_active
        /\ facts[s].is_active

-----------------------------------------------------------------------------
(* The life of a fact record under every operation on it *)

LifecycleNext ==
    \/ \E t \in Instants : Tick(t)
    \/ nextId.learning_data <= MaxFacts /\ CreateFact("u1", Template("jazz"))
    \/ \E i \in DOMAIN facts : Evidence(facts) < MaxEvidence /\ Reinforce(i, NoConfidence)
    \/ \E i \in DOMAIN facts : Evidence(facts) < MaxEvidence /\ Contradict(i)
    \/ \E i, j \in DOMAIN facts : SupersedeWith(i, j)
    \/ \E primary \in Primaries(facts, "u1") : MergePass("u1", primary)
    \/ ArchivePass("u1")

LifecycleSpec == Init /\ [][LifecycleNext]_vars

(* C3: in every reachable state a fact record with
   times_contradicted > times_reinforced + 2 is inactive. *)
C3_ContradictedIsInactive ==
    \A i \in DOMAIN facts :
        facts[i].times_contradicted > facts[i].times_reinforced + 2 => ~facts[i].is_active

(* C4: in every reachable state a fact record whose superseded_by is set is
   inactive. *)
C4_SupersededIsInactive ==
    \A i \in DOMAIN facts : facts[i].superseded_by # None => ~facts[i].is_active

(* C4 witness: a record superseded through supersede_with, and afterwards
   reinforced, beside a record superseded by a merge pass. *)
C4_Witness ==
    \E i, j \in DOMAIN facts :
        /\ i # j
        /\ facts[i].superseded_by # None
        /\ facts[i].times_reinforced > 0
        /\ facts[j].superseded_by # None

(* The values reinforce() is called with: none, or an observed confidence. *)
ReinforceInputs == {NoConfidence} \cup ObservedConfidences

(* C12: a reinforce call (with or without an observed confidence) leaves
   the record's confidence greater than or equal to its value before the
   call, a contradict call leaves it less than or equal, and a step that is
   neither a reinforce nor a contradict of the record leaves its confidence
   unchanged. *)
C12_ConfidenceFollowsEvidence ==
    [][\A i \in DOMAIN facts :
          /\ (\E c \in ReinforceInputs : Reinforce(i, c)) =>
                facts'[i].confidence >= facts[i].confidence
          /\ Contradict(i) => facts'[i].confidence <= facts[i].confidence
          /\ (~(\E c \in ReinforceInputs : Reinforce(i, c)) /\ ~Contradict(i)) =>
                facts'[i].confidence = facts[i].confidence]_vars

(* C13: in every reachable state (after creation and after any sequence of
   reinforce, contradict, supersede, merge and archival) each record's
   validation_score equals the formula over its current counters. *)
C13_ValidationScoreFollowsCounters ==
    \A i \in DOMAIN facts :
        LET feedback == facts[i].times_reinforced + facts[i].times_contradicted
        IN  facts[i].validation_score =
              IF feedback = 0 THEN 0
              ELSE Min((facts[i].times_reinforced * Scale) \div feedback
                          + Min((facts[i].times_observed * Scale) \div 10,
                                (2 * Scale) \div 10),
                       Scale)

(* C13 witness: the survivor of a merge whose own evidence was only
   contradictions and which took reinforcements over from the record it
   superseded, so that its score is not the one it had before the pass. *)
C13_Witness ==
    \E i, s \in DOMAIN facts :
        /\ facts[i].superseded_by = s
        /\ facts[s].is_active
        /\ facts[i].times_reinforced > 0
        /\ facts[s].times_reinforced = facts[i].times_reinforced
        /\ facts[s].times_contradicted > facts[i].times_contradicted
        /\ facts[s].validation_score > 0

(* C15: a record that is inactive stays inactive under every operation
   (reinforce, contradict, supersede, merge, archival); in particular a
   record deactivated by contradictions is not reactivated by later
   reinforcements that bring times_contradicted back to at most
   times_reinforced + 2. *)
C15_StickyDeactivation ==
    [][\A i \in DOMAIN facts : ~facts[i].is_active => ~facts'[i].is_active]_vars

(* C15 witness: a record deactivated by its third contradiction and
   reinforced afterwards (its confidence has left the floor the
   contradictions put it on), now with times_contradicted =
   times_reinforced + 2 and still inactive. *)
C15_Witness ==
    \E i \in DOMAIN facts :
        /\ ~facts[i].is_active
        /\ facts[i].superseded_by = None
        /\ facts[i].times_contradicted = 3
        /\ facts[i].times_reinforced = 1
        /\ facts[i].confidence > Scale \div 10

(* C16: an archival pass for a user deactivates exactly the user's records
   that are active, of confidence below 0.3, last observed more than 30 days
   ago and contradicted more often than reinforced; every other record keeps
   its is_active, and no record's confidence, counters, validation_score or
   superseded_by changes. *)
C16_ArchivalIsExact ==
    [][ArchivePass("u1") =>
          \A i \in DOMAIN facts :
              /\ facts'[i].is_active =
                    (facts[i].is_active
                       /\ ~(/\ facts[i].user_id = "u1"
                            /\ 10 * facts[i].confidence < 3 * Scale
                            /\ now - facts[i].last_observed > ArchiveDays * HoursPerDay
                            /\ facts[i].times_contradicted > facts[i].times_reinforced))
              /\ facts'[i] = [facts[i] EXCEPT !.is_active = facts'[i].is_active]]_vars

(* C16 witness: after an archival pass, a record it deactivated (not
   superseded, not past the contradiction threshold) beside an active record
   that meets every condition but the age. *)
C16_Witness ==
    \E i, j \in DOMAIN facts :
        /\ ~facts[i].is_active
        /\ facts[i].superseded_by = None
        /\ facts[i].times_contradicted <= facts[i].times_reinforced + 2
        /\ facts[j].is_active
        /\ 10 * facts[j].confidence < 3 * Scale
        /\ facts[j].times_contradicted > facts[j].times_reinforced
        /\ now - facts[j].last_observed <= ArchiveDays * HoursPerDay

(* C22: in a merge pass the survivor of every group of two or more records
   is a record of highest confidence, and among several records of that
   highest confidence it is one of earliest created_at, whatever the order
   in which the store returned the group. *)
C22_SurvivorIsEarliestOfHighest ==
    [][\A primary \in Primaries(facts, "u1") :
          MergePass("u1", primary) =>
            \A g \in MergeGroups(facts, "u1") :
                \E s \in HighestConfidence(facts, Group(facts, "u1", g)) :
                    /\ Group(facts', "u1", g) = {s}
                    /\ \A j \in HighestConfidence(facts, Group(facts, "u1", g)) :
                          facts[s].created_at <= facts[j].created_at]_vars

-----------------------------------------------------------------------------
(* One fact record under reinforce and contradict, from any start *)

(* Confidence values a record may be created with, the bounds included. *)
StartConfidences == {0, 500, 5000, TopicConfidence, Scale}

(* Observed confidences reinforce() may be given, the bounds included. *)
ObservedRange == {0, Scale} \cup ObservedConfidences

DynamicsNext ==
    \/ \E c \in StartConfidences :
          /\ DOMAIN facts = {}
          /\ CreateFact("u1", [Template("jazz") EXCEPT !.confidence = c])
    \/ \E i \in DOMAIN facts, c \in {NoConfidence} \cup ObservedRange :
          Evidence(facts) < MaxEvidence /\ Reinforce(i, c)
    \/ \E i \in DOMAIN facts : Evidence(facts) < MaxEvidence /\ Contradict(i)

DynamicsSpec == Init /\ [][DynamicsNext]_vars

(* C11: for a record created with a confidence in [0, 1], the confidence
   is in [0.1, 1.0] immediately after every contradict and in [0, 1.0]
   immediately after every reinforce, with or without an observed confidence
   in [0, 1]. *)
C11_ConfidenceBounds ==
    [][\A i \in DOMAIN facts :
          /\ Contradict(i) =>
                /\ 10 * facts'[i].confidence >= Scale
                /\ facts'[i].confidence <= Scale
          /\ (\E c \in {NoConfidence} \cup ObservedRange : Reinforce(i, c)) =>
                /\ facts'[i].confidence >= 0
                /\ facts'[i].confidence <= Scale]_vars

(* C11 witness: a record that has been reinforced and contradicted, and
   whose confidence the last contradiction has put on the floor 0.1. *)
C11_Witness ==
    \E i \in DOMAIN facts :
        /\ facts[i].times_reinforced > 0
        /\ facts[i].times_contradicted > 1
        /\ 10 * facts[i].confidence = Scale

(* C14: a record that has gone through reinforce and contradict calls only
   has times_observed = times_reinforced + times_contradicted + 1, hence
   times_observed >= max(times_reinforced, times_contradicted). *)
C14_ObservationsCountEvidence ==
    \A i \in DOMAIN facts :
        /\ facts[i].times_observed =
              facts[i].times_reinforced + facts[i].times_contradicted + 1
        /\ facts[i].times_observed >= facts[i].times_reinforced
        /\ facts[i].times_observed >= facts[i].times_contradicted

(* C14 witness: a record with both kinds of evidence recorded. *)
C14_Witness ==
    \E i \in DOMAIN facts :
        facts[i].times_reinforced >= 2 /\ facts[i].times_contradicted >= 2

-----------------------------------------------------------------------------
(* The read path over the stores of two users *)

(* u1's records go through every way of becoming inactive; u2's records
   are the records of another user. *)
RetrievalNext ==
    \/ \E t \in Instants : Tick(t)
    \/ \E u \in Users :
          nextId.learning_data <= MaxFacts /\ CreateFact(u, Template("jazz"))
    \/ \E i \in DOMAIN facts :
          facts[i].user_id = "u1" /\ Evidence(facts) < MaxEvidence /\ Contradict(i)
    \/ \E primary \in Primaries(facts, "u1") : MergePass("u1", primary)
    \/ ArchivePass("u1")
    \/ \E u \in Users, q \in Queries \ {{}}, limit \in Limits :
          \E rows \in QueryRows(facts, u) : GetRelevantMemories(u, q, limit, rows)
    \/ \E u \in Users, q \in Queries \ {{}} :
          \E rows \in QueryRows(facts, u) : BuildMemoryContext(u, q, rows)

RetrievalSpec == Init /\ [][RetrievalNext]_vars

(* C5: every fact record that get_relevant_memories or build_memory_context
   returns for a user is, in the store the call read, an active record of
   that user: no superseded, archived or contradiction-deactivated record
   and no record of another user is returned. *)
C5_RetrievalReturnsOwnActiveFacts ==
    \A n \in DOMAIN retrieved.result :
        /\ retrieved.result[n] \in DOMAIN facts
        /\ facts[retrieved.result[n]].is_active
        /\ facts[retrieved.result[n]].user_id = retrieved.user_id

(* C5 witness: a call returns a record of the user while the store holds
   another record, which is an inactive record of that user or a record of
   another user. *)
C5_Witness ==
    /\ retrieved.result # <<>>
    /\ \E i \in DOMAIN facts :
          \/ facts[i].user_id = retrieved.user_id /\ ~facts[i].is_active
          \/ facts[i].user_id # retrieved.user_id

-----------------------------------------------------------------------------
(* Retrieval from a store of many facts, learned one per hour: personal
   facts that do not match the query, and at most one topic that does. *)

VolumeNext ==
    \/ (\E i \in DOMAIN facts : facts[i].created_at = now) /\ Elapse
    \/ \E v \in {"jazz", "paris"} :
          /\ nextId.learning_data <= MaxVolumeFacts
          /\ \A i \in DOMAIN facts : facts[i].created_at < now
          /\ v = "jazz" => \A i \in DOMAIN facts : facts[i].value # "jazz"
          /\ CreateFact("u1", Template(v))
    \/ \E limit \in Limits : \E rows \in QueryRows(facts, "u1") :
          GetRelevantMemories("u1", {"jazz"}, limit, rows)

VolumeSpec == Init /\ [][VolumeNext]_vars

(* C19: get_relevant_memories(user, query, limit = K) returns, in
   descending order of relevance and without repetition, K of the user's
   active facts of relevance above 0.1 (all of them if there are fewer), and
   no such fact left out has a higher relevance than a returned one. *)
C19_RetrievalReturnsTopK ==
    retrieved.op = "get_relevant_memories" =>
        LET result == retrieved.result
            relevance == [i \in DOMAIN facts |->
                            calculate_relevance_score(facts[i], retrieved.keywords, now)]
            eligible == {i \in ActiveIds(facts, retrieved.user_id) :
                            10 * relevance[i] > Scale}
            returned == {result[n] : n \in DOMAIN result}
        IN  /\ returned \subseteq eligible
            /\ Len(result) = Min(retrieved.limit, Cardinality(eligible))
            /\ \A a, b \in DOMAIN result :
                  a < b => result[a] # result[b]
                           /\ relevance[result[a]] >= relevance[result[b]]
            /\ \A x \in eligible \ returned : \A y \in returned :
                  relevance[x] <= relevance[y]

-----------------------------------------------------------------------------
(* Retrieval of records that match the query in full within the day they
   were observed, so that their relevance is the maximum whatever their
   confidence. *)

RankingNext ==
    \/ now < MaxHours /\ Elapse
    \/ nextId.learning_data <= MaxFacts /\ CreateFact("u1", Template("paris"))
    \/ \E i \in DOMAIN facts : Evidence(facts) < MaxEvidence /\ Reinforce(i, NoConfidence)
    \/ \E limit \in Limits : \E rows \in QueryRows(facts, "u1") :
          GetRelevantMemories("u1", {"paris"}, limit, rows)

RankingSpec == Init /\ [][RankingNext]_vars

(* C20: among the facts get_relevant_memories returns with equal
   relevance, a fact observed more recently comes before one observed
   earlier, and when the limit cuts between facts of equal relevance the one
   left out was not observed more recently than the one returned, whatever
   the confidences. *)
C20_TiesGoToTheMoreRecent ==
    retrieved.op = "get_relevant_memories" =>
        LET result == retrieved.result
            relevance == [i \in DOMAIN facts |->
                            calculate_relevance_score(facts[i], retrieved.keywords, now)]
            eligible == {i \in ActiveIds(facts, retrieved.user_id) :
                            10 * relevance[i] > Scale}
            returned == {result[n] : n \in DOMAIN result}
        IN  /\ \A a, b \in DOMAIN result :
                  (a < b /\ relevance[result[a]] = relevance[result[b]]) =>
                      facts[result[a]].last_observed >= facts[result[b]].last_observed
            /\ \A x \in eligible \ returned : \A y \in returned :
                  relevance[x] = relevance[y] =>
                      facts[x].last_observed <= facts[y].last_observed

-----------------------------------------------------------------------------
(* Relevance of topic facts to a question *)

RelevanceNext ==
    \/ now < MaxHours /\ Elapse
    \/ \E v \in {"jazz", "cars"} :
          nextId.learning_data <= MaxFacts /\ CreateFact("u1", Template(v))
    \/ \E i \in DOMAIN facts : Evidence(facts) < MaxEvidence /\ Reinforce(i, NoConfidence)
    \/ \E limit \in Limits : \E rows \in QueryRows(facts, "u1") :
          GetRelevantMemories("u1", extract_keywords(MusicQuery), limit, rows)

RelevanceSpec == Init /\ [][RelevanceNext]_vars

(* C23: for the query "What music do I like?" a topic fact of value jazz
   gets a strictly higher relevance score than a topic fact of value cars
   that has the same confidence, the same recency and the same context. *)
C23_KeywordOverlapDifferentiates ==
    retrieved.op = "get_relevant_memories" =>
        \A i, j \in ActiveIds(facts, retrieved.user_id) :
            /\ facts[i].value = "jazz"
            /\ facts[j].value = "cars"
            /\ facts[i].learning_type = facts[j].learning_type
            /\ facts[i].key = facts[j].key
            /\ facts[i].confidence = facts[j].confidence
            /\ facts[i].last_observed = facts[j].last_observed
            => calculate_relevance_score(facts[i], retrieved.keywords, now)
                 > calculate_relevance_score(facts[j], retrieved.keywords, now)

-----------------------------------------------------------------------------
(* Consolidation runs for one user, with and without a profile row *)

ConsolidationNext ==
    \/ \E t \in Instants : Tick(t)
    \/ nextId.learning_data <= MaxFacts /\ CreateFact("u1", Template("jazz"))
    \/ \E i \in DOMAIN facts, c \in {x \in ObservedConfidences : x < TopicConfidence} :
          Evidence(facts) < MaxConsolidationEvidence /\ Reinforce(i, c)
    \/ \E i \in DOMAIN facts :
          Evidence(facts) < MaxConsolidationEvidence /\ Contradict(i)
    \/ \E primary \in Primaries(facts, "u1"), fault \in Faults(facts, "u1") :
          consolidate_memory("u1", primary, fault)
    \/ ProcessNoConversations("u1")

ConsolidationSpec == Init /\ [][ConsolidationNext]_vars

(* C7: a consolidation run in which a step fails (summary creation, merge
   pass or archival pass) commits none of its changes: the fact store and
   the summaries are as before the run. *)
C7_ConsolidationAllOrNothing ==
    [][\A primary \in Primaries(facts, "u1"), fault \in Faults(facts, "u1") :
          (fault # NoFault /\ consolidate_memory("u1", primary, fault)) =>
              facts' = facts /\ summaries' = summaries]_vars

(* C10: a consolidation run for a user whose previous run completed, with
   nothing written and no time elapsed since, changes no record's
   confidence, evidence counters or is_active flag. *)
C10_ConsolidationIdempotent ==
    [][\A primary \in Primaries(facts, "u1"), fault \in Faults(facts, "u1") :
          ("u1" \in consolidated /\ consolidate_memory("u1", primary, fault)) =>
              \A i \in DOMAIN facts :
                  /\ facts'[i].confidence = facts[i].confidence
                  /\ facts'[i].is_active = facts[i].is_active
                  /\ \A f \in CounterFields : facts'[i][f] = facts[i][f]]_vars

(* C26: the store a consolidation run leaves when no store or collaborator
   failure occurs holds the results of its merge and archival passes: no two
   active facts of the user share (learning_type, key), whether or not the
   user has a profile row. *)
C26_ConsolidationLeavesNoDuplicates ==
    \A primary \in Primaries(facts, "u1") :
        LET after == ConsolidationResult("u1", primary, NoFault)[1]
        IN  \A i, j \in ActiveIds(after, "u1") :
                GroupKey(after[i]) = GroupKey(after[j]) => i = j

(* C27: in a consolidation run that commits, the archival pass decides on
   the rows as the merge pass of the same run left them: a record is active
   after the run iff the merge left it active and its merged confidence,
   counters and last_observed do not meet the archival conditions. *)
C27_ArchivalSeesMergedStore ==
    [][\A primary \in Primaries(facts, "u1") :
          (ConsolidationCommits("u1", NoFault)
              /\ consolidate_memory("u1", primary, NoFault)) =>
            LET merged == merge_similar_learnings(facts, "u1", primary,
                              Cardinality(MergeGroups(facts, "u1")))
            IN  \A i \in DOMAIN facts :
                    facts'[i].is_active =
                        (merged[i].is_active /\ i \notin old_learnings(merged, "u1", now))]_vars

-----------------------------------------------------------------------------
(* The analysis collaborator's answers, as json.loads returns them *)

(* A JSON value: its kind, and the content of that kind. *)
JsonValue(kind, dict, list, number, text) ==
    [kind |-> kind, dict |-> dict, list |-> list, number |-> number, text |-> text]

Null == JsonValue("null", EmptyMap, {}, 0, "None")
DictValue(m) == JsonValue("dict", m, {}, 0, "")
ListValue(l) == JsonValue("list", EmptyMap, l, 0, "")
NumberValue(n) == JsonValue("number", EmptyMap, {}, n, "")
TextValue(t) == JsonValue("text", EmptyMap, {}, 0, t)

(* bool(value) *)
Truthy(v) ==
    CASE v.kind = "null" -> FALSE
      [] v.kind = "dict" -> v.dict # EmptyMap
      [] v.kind = "list" -> v.list # {}
      [] v.kind = "number" -> v.number # 0
      [] OTHER -> v.text # ""

(* {} : what analyze_for_learning returns when the call fails or its answer
   does not parse. *)
FailedAnalysis == [f \in {} |-> Null]

(* The object the prompt asks for. *)
WellFormedAnalysis ==
    [personal_facts |-> DictValue("city" :> "paris"),
     communication_preferences |-> DictValue("tone" :> "casual"),
     topics_of_interest |-> ListValue({"jazz"}),
     expertise_areas |-> ListValue({}),
     formality_score |-> NumberValue((8 * Scale) \div 10),
     preferred_response_length |-> TextValue("short")]

(* An object with fields missing. *)
MissingFieldsAnalysis == [topics_of_interest |-> ListValue({"jazz"})]

(* An object with a field of the wrong shape: null where a dict is asked. *)
WrongShapeAnalysis ==
    [WellFormedAnalysis EXCEPT !.communication_preferences = Null]

Analyses ==
    {FailedAnalysis, WellFormedAnalysis, MissingFieldsAnalysis, WrongShapeAnalysis}

-----------------------------------------------------------------------------
(* LearningService: one learning update on the session of a background task.
   A session is the profile object it loaded, the columns it has assigned a
   different value (dirty: the ones its commit writes), the LearningData rows
   it has added, and whether the call in progress has raised. *)

Session(profile) == [profile |-> profile, dirty |-> {}, rows |-> <<>>, raised |-> FALSE]

Raise(ss) == [ss EXCEPT !.raised = TRUE]

(* profile.<f>.update(analysis[f]) after "if not profile.<f>: profile.<f> = {}":
   the in-place update reaches the store only if the column was assigned,
   that is if it was empty. *)
UpdateDictColumn(ss, analysis, f) ==
    IF ss.raised \/ f \notin DOMAIN analysis \/ ~Truthy(analysis[f]) THEN ss
    ELSE IF analysis[f].kind # "dict" THEN Raise(ss)
    ELSE [ss EXCEPT !.profile[f] = analysis[f].dict @@ @,
                    !.dirty = IF ss.profile[f] = EmptyMap THEN @ \cup {f} ELSE @]

(* profile.<f> = list(set(profile.<f> or []).union(set(analysis[f]))) *)
UpdateSetColumn(ss, analysis, f) ==
    IF ss.raised \/ f \notin DOMAIN analysis \/ ~Truthy(analysis[f]) THEN ss
    ELSE IF analysis[f].kind \notin {"list", "dict"} THEN Raise(ss)
    ELSE LET new == IF analysis[f].kind = "list" THEN analysis[f].list
                    ELSE DOMAIN analysis[f].dict
         IN  [ss EXCEPT !.profile[f] = @ \cup new,
                        !.dirty = IF new \subseteq ss.profile[f] THEN @ ELSE @ \cup {f}]

(* alpha = 0.3 : exponential moving average with float(analysis[f]) *)
UpdateFormalityScore(ss, analysis) ==
    LET f == "formality_score"
        current_score == IF ss.profile[f] = 0 THEN Scale \div 2 ELSE ss.profile[f]
        new_score == analysis[f].number
        updated == (3 * new_score + 7 * current_score) \div 10
    IN  IF ss.raised \/ f \notin DOMAIN analysis THEN ss
        ELSE IF analysis[f].kind # "number" THEN Raise(ss)
        ELSE [ss EXCEPT !.profile[f] = updated,
                        !.dirty = IF updated = ss.profile[f] THEN @ ELSE @ \cup {f}]

UpdatePreferredResponseLength(ss, analysis) ==
    LET f == "preferred_response_length"
    IN  IF ss.raised \/ f \notin DOMAIN analysis THEN ss
        ELSE [ss EXCEPT !.profile[f] = analysis[f].text,
                        !.dirty = IF analysis[f].text = ss.profile[f] THEN @ ELSE @ \cup {f}]

update_user_profile_from_analysis(ss, analysis) ==
    UpdatePreferredResponseLength(
        UpdateFormalityScore(
            UpdateSetColumn(
                UpdateSetColumn(
                    UpdateDictColumn(
                        UpdateDictColumn(ss, analysis, "personal_facts"),
                        analysis, "communication_preferences"),
                    analysis, "topics_of_interest"),
                analysis, "expertise_areas"),
            analysis),
        analysis)

(* The rows one loop of _store_learning_data adds, for the entries left. *)
RECURSIVE LearningRows(_, _, _, _, _, _)
LearningRows(u, learning_type, confidence, entries, keyed, t) ==
    IF entries = {} THEN <<>>
    ELSE LET e == CHOOSE x \in entries : TRUE
             tpl == [learning_type |-> learning_type,
                     key |-> IF keyed THEN e[1] ELSE "topic",
                     value |-> e[2],
                     confidence |-> confidence]
         IN  <<LearningData(u, tpl, t)>>
             \o LearningRows(u, learning_type, confidence, entries \ {e}, keyed, t)

(* for key, value in analysis[f].items(): db.add(LearningData(...)) *)
StoreDictEntries(ss, analysis, f, u, learning_type, confidence, t) ==
    IF ss.raised \/ f \notin DOMAIN analysis THEN ss
    ELSE IF analysis[f].kind # "dict" THEN Raise(ss)
    ELSE LET m == analysis[f].dict
         IN  [ss EXCEPT !.rows = @ \o LearningRows(u, learning_type, confidence,
                                                   {<<k, m[k]>> : k \in DOMAIN m}, TRUE, t)]

(* for topic in analysis[f]: db.add(LearningData(key="topic", ...)) *)
StoreTopics(ss, analysis, f, u, t) ==
    IF ss.raised \/ f \notin DOMAIN analysis THEN ss
    ELSE IF analysis[f].kind \notin {"list", "dict"} THEN Raise(ss)
    ELSE LET topics == IF analysis[f].kind = "list" THEN analysis[f].list
                       ELSE DOMAIN analysis[f].dict
         IN  [ss EXCEPT !.rows = @ \o LearningRows(u, "topic_interest", TopicConfidence,
                                                   {<<"topic", x>> : x \in topics}, FALSE, t)]

store_learning_data(ss, analysis, u, t) ==
    StoreTopics(
        StoreDictEntries(
            StoreDictEntries(ss, analysis, "personal_facts", u, "personal_fact",
                             PersonalFactConfidence, t),
            analysis, "communication_preferences", u, "communication_preference",
            PreferenceConfidence, t),
        analysis, "topics_of_interest", u, t)

(* _perform_learning_update once the analysis has answered: the two calls
   are made for a truthy answer, the second only if the first returned; what
   either raises is caught and logged here, and the session keeps what was
   done before. *)
perform_learning_update(ss, analysis, u, t) ==
    LET updated == update_user_profile_from_analysis(ss, analysis)
        stored == IF updated.raised THEN updated
                  ELSE store_learning_data(updated, analysis, u, t)
    IN  IF DOMAIN analysis = {} THEN ss
        ELSE [stored EXCEPT !.raised = FALSE]

(* alpha = 0.2 : exponential moving average of the length of the request's
   user message, on the session's profile object. *)
update_communication_metrics(ss, length) ==
    LET f == "avg_message_length"
        updated == (2 * length * Scale + 8 * ss.profile[f]) \div 10
    IN  [ss EXCEPT !.profile[f] = updated,
                   !.dirty = IF updated = ss.profile[f] THEN @ ELSE @ \cup {f}]

(* db.commit() of a session: the UPDATE sets the dirty columns of the stored
   profile row; the added rows are inserted with fresh keys. *)
CommittedProfile(stored, ss) ==
    [c \in DOMAIN stored |-> IF c \in ss.dirty THEN ss.profile[c] ELSE stored[c]]

CommittedFacts(tbl, ss, first) ==
    tbl @@ [i \in first..(first + Len(ss.rows) - 1) |-> ss.rows[i - first + 1]]

-----------------------------------------------------------------------------
(* The chat endpoints and the background task of each answered message *)

Conversation(id, u, message_type, length, t) ==
    [id |-> id, user_id |-> u, message_type |-> message_type, length |-> length,
     timestamp |-> t]

ConversationIds(u) == {convs[n].id : n \in {m \in DOMAIN convs : convs[m].user_id = u}}

(* The user's turns ORDER BY timestamp DESC LIMIT limit, the query of
   _perform_learning_update (limit 20) and of trigger_learning_update
   (limit 10). Turns are stamped with utcnow() when they are stored, so
   the order of the timestamps is the order of insertion. *)
NewestTurns(cv, u, limit) ==
    LET turns == SelectSeq(cv, LAMBDA c : c.user_id = u)
        newest_first == [n \in 1..Len(turns) |-> turns[Len(turns) + 1 - n]]
    IN  SubSeq(newest_first, 1, Min(Len(newest_first), limit))

recent_conversations(cv, u) == NewestTurns(cv, u, RecentLimit)

(* analyze_for_learning: conversation_history[-10:], the turns put in the
   prompt. *)
recent_messages(conversation_history) ==
    SubSeq(conversation_history,
           Max(1, Len(conversation_history) - AnalysisWindow + 1),
           Len(conversation_history))

(* send_message up to "await ai_service.generate_response": the user turn is
   committed, the profile row is queried. *)
SendMessageBegin(u, length) ==
    /\ Cardinality(requests) + Cardinality(tasks) < MaxInFlight
    /\ convs' = Append(convs, Conversation(nextId.conversations, u, "user", length, now))
    /\ nextId' = [nextId EXCEPT !.conversations = @ + 1]
    /\ requests' = requests \cup {[user_id |-> u,
                                   user_conversation |-> nextId.conversations,
                                   user_profile |-> u \in DOMAIN profiles]}
    /\ consolidated' = consolidated \ {u}
    /\ retrieved' = NoResult
    /\ UNCHANGED <<facts, now, profiles, summaries, tasks>>

(* generate_response raises: the handler answers 500. *)
SendMessageFail(req) ==
    /\ req \in requests
    /\ requests' = requests \ {req}
    /\ retrieved' = NoResult
    /\ UNCHANGED <<facts, nextId, now, profiles, convs, summaries, tasks, consolidated>>

(* send_message from the answer on: the assistant turn is committed; the
   profile row (reloaded after that commit) is incremented, or inserted if the
   query had found none, which the unique user_id rejects if a row has
   appeared since; then the background task is scheduled. The task's field
   total_messages is history: the value of the counter this exchange
   committed; window holds the ids of the turns sent to the analysis, once
   the task awaits it. *)
SendMessageEnd(req) ==
    /\ req \in requests
    /\ LET u == req.user_id
           rejected == ~req.user_profile /\ u \in DOMAIN profiles
       IN  /\ convs' = Append(convs, Conversation(nextId.conversations, u, "assistant",
                                                  0, now))
           /\ profiles' = IF rejected THEN profiles
                          ELSE IF req.user_profile
                          THEN [profiles EXCEPT ![u].total_messages = @ + 1]
                          ELSE profiles @@ (u :> UserProfile(u, 1))
           /\ tasks' = IF rejected THEN tasks
                       ELSE tasks \cup {[id |-> nextId.conversations,
                                         user_id |-> u,
                                         user_conversation |-> req.user_conversation,
                                         total_messages |->
                                             IF req.user_profile
                                             THEN profiles[u].total_messages + 1
                                             ELSE 1,
                                         pc |-> "scheduled",
                                         profile |-> UserProfile(u, 0),
                                         window |-> <<>>]}
           /\ consolidated' = consolidated \ {u}
    /\ nextId' = [nextId EXCEPT !.conversations = @ + 1]
    /\ requests' = requests \ {req}
    /\ retrieved' = NoResult
    /\ UNCHANGED <<facts, now, summaries>>

(* The end of process_new_conversations on session ss:
   _update_communication_metrics, then db.commit(). The metrics read the
   user turn of the request, an object of the request's session expired by
   its last commit: the read raises if the row is gone or that session is
   closed (detached), and the handler then rolls the session back. *)
CompleteTask(task, base, ss, detached) ==
    LET u == task.user_id
        turn == {n \in DOMAIN convs : convs[n].id = task.user_conversation}
        raises == detached \/ turn = {}
        done == update_communication_metrics(ss, convs[CHOOSE n \in turn : TRUE].length)
    IN  /\ profiles' = IF raises THEN base
                       ELSE [base EXCEPT ![u] = CommittedProfile(@, done)]
        /\ facts' = IF raises THEN facts
                    ELSE CommittedFacts(facts, done, nextId.learning_data)
        /\ nextId' = IF raises THEN nextId
                     ELSE [nextId EXCEPT !.learning_data = @ + Len(done.rows)]
        /\ tasks' = tasks \ {task}
        /\ consolidated' = consolidated \ {u}
        /\ retrieved' = NoResult
        /\ UNCHANGED <<now, convs, summaries, requests>>

(* update_learning from its start to "await analyze_for_learning", or to its
   end when no learning update is due or there is no turn to analyse. The
   task is the one of a service that passes the guard on its state at the
   head of process_new_conversations (ENABLE_LEARNING set, the service and
   its AI service initialized): of a service that does not, see
   process_skipped. *)
TaskStart(task, detached) ==
    /\ task \in tasks
    /\ task.pc = "scheduled"
    /\ LET u == task.user_id
           base == IF u \in DOMAIN profiles THEN profiles
                   ELSE profiles @@ (u :> UserProfile(u, 0))
           due == base[u].total_messages % LEARNING_UPDATE_INTERVAL = 0
       IN  IF due /\ ConversationIds(u) # {}
           THEN /\ ~detached
                /\ nextId.learning_data <= MaxFacts
                /\ tasks' = (tasks \ {task})
                              \cup {[task EXCEPT
                                       !.pc = "analysing",
                                       !.profile = base[u],
                                       !.window =
                                           LET sent == recent_messages(
                                                           recent_conversations(convs, u))
                                           IN  [n \in DOMAIN sent |-> sent[n].id]]}
                /\ profiles' = base
                /\ retrieved' = NoResult
                /\ UNCHANGED <<facts, nextId, now, convs, summaries, requests, consolidated>>
           ELSE CompleteTask(task, base, Session(base[u]), detached)

(* update_learning from the answer of the analysis to its end. *)
TaskFinish(task, analysis, detached) ==
    /\ task \in tasks
    /\ task.pc = "analysing"
    /\ CompleteTask(task, profiles,
                    perform_learning_update(Session(task.profile), analysis,
                                            task.user_id, now),
                    detached)

(* The LearningService object as __init__ leaves it. *)
LearningServiceObject == [initialized |-> FALSE, ai_service |-> None]

(* learning_service.initialize(): the service gets an AIService object of
   its own, whose initialize() it does not await. *)
initialize(svc) ==
    [svc EXCEPT !.initialized = TRUE, !.ai_service = [initialized |-> FALSE]]

(* The module-level instance of api/learning.py, on which nothing calls
   initialize(); the lifespan handler initializes the instance of main.py. *)
learning_service == LearningServiceObject

(* "if not self.initialized or not self.ai_service.initialized: return" *)
process_skipped(svc) ==
    IF ~svc.initialized THEN TRUE ELSE ~svc.ai_service.initialized

(* trigger_learning_update: the ten newest turns are loaded and, if there
   are any, handed to process_new_conversations of learning_service, which
   is awaited; the answer tells the ids of the turns. The field result of
   the answer is empty for "No conversations found to analyze". *)
TriggerLearningUpdate(u, analysis) ==
    LET found == NewestTurns(convs, u, TriggerLimit)
        user_messages == SelectSeq(found, LAMBDA c : c.message_type = "user")
        skipped == Len(found) = 0 \/ process_skipped(learning_service)
        base == IF u \in DOMAIN profiles THEN profiles
                ELSE profiles @@ (u :> UserProfile(u, 0))
        due == base[u].total_messages % LEARNING_UPDATE_INTERVAL = 0
        analysed == IF due THEN perform_learning_update(Session(base[u]), analysis, u, now)
                    ELSE Session(base[u])
        done == IF Len(user_messages) = 0 THEN analysed
                ELSE update_communication_metrics(
                         analysed,
                         SumField(user_messages, DOMAIN user_messages, "length")
                             \div Len(user_messages))
    IN  /\ profiles' = IF skipped THEN profiles
                       ELSE [base EXCEPT ![u] = CommittedProfile(@, done)]
        /\ facts' = IF skipped THEN facts
                    ELSE CommittedFacts(facts, done, nextId.learning_data)
        /\ nextId' = IF skipped THEN nextId
                     ELSE [nextId EXCEPT !.learning_data = @ + Len(done.rows)]
        /\ consolidated' = IF skipped THEN consolidated ELSE consolidated \ {u}
        /\ retrieved' = [NoResult EXCEPT !.op = "trigger_learning_update",
                                         !.user_id = u,
                                         !.limit = TriggerLimit,
                                         !.result = [n \in DOMAIN found |-> found[n].id]]
        /\ UNCHANGED <<now, convs, summaries, requests, tasks>>

(* reset_user_profile: the user's LearningData rows and summaries are
   deleted and the learned columns of the profile row, if there is one, are
   set back; one commit. *)
ResetUserProfile(u) ==
    /\ facts' = [i \in {j \in DOMAIN facts : facts[j].user_id # u} |-> facts[i]]
    /\ summaries' = {x \in summaries : x.user_id # u}
    /\ profiles' = IF u \in DOMAIN profiles
                   THEN [profiles EXCEPT ![u].personal_facts = EmptyMap,
                                         ![u].communication_preferences = EmptyMap,
                                         ![u].topics_of_interest = {},
                                         ![u].expertise_areas = {},
                                         ![u].formality_score = Scale \div 2,
                                         ![u].avg_message_length = 0,
                                         ![u].preferred_response_length = "medium"]
                   ELSE profiles
    /\ consolidated' = consolidated \ {u}
    /\ retrieved' = NoResult
    /\ UNCHANGED <<nextId, now, convs, requests, tasks>>

(* clear_conversation_history *)
ClearConversationHistory(u) ==
    /\ ConversationIds(u) # {}
    /\ convs' = SelectSeq(convs, LAMBDA c : c.user_id # u)
    /\ profiles' = IF u \in DOMAIN profiles
                   THEN [profiles EXCEPT ![u].total_messages = 0,
                                         ![u].total_conversations = @ + 1]
                   ELSE profiles
    /\ consolidated' = consolidated \ {u}
    /\ retrieved' = NoResult
    /\ UNCHANGED <<facts, nextId, now, summaries, requests, tasks>>

(* C25: the window of turns a learning-update cycle hands to the analysis
   consists of the user's most recent turns: whenever the user has stored
   turns, the newest stored turn is in the analysed window. *)
C25_WindowHoldsNewestTurn ==
    [][\A task \in tasks, detached \in BOOLEAN :
          TaskStart(task, detached) =>
            \A started \in tasks' :
                (started.id = task.id /\ started.pc = "analysing") =>
                    \E n \in DOMAIN started.window :
                        /\ started.window[n] \in ConversationIds(task.user_id)
                        /\ \A id \in ConversationIds(task.user_id) :
                              id <= started.window[n]]_vars

(* C29: whatever the interleaving of the send_message requests of a user,
   the one profile row of the user counts every exchange completed since it
   was created: total_messages equals the number of exchanges whose answer
   is stored, none of the increments being lost. *)
C29_EveryExchangeIsCounted ==
    \A u \in DOMAIN profiles :
        profiles[u].total_messages =
            Cardinality({n \in DOMAIN convs :
                            convs[n].user_id = u /\ convs[n].message_type = "assistant"})

(* The learned sets of the profile over the exchanges of one user up to the
   first learning-update cycle, with resets and consolidation runs between
   them. The exchanges follow one another, except that the last may begin
   while the task of the one before is pending. *)

(* Answers of the analysis that name one topic and one area. *)
ProfileAnalyses ==
    {[topics_of_interest |-> ListValue({v}), expertise_areas |-> ListValue({v})] :
        v \in {"jazz", "cars"}}

ProfileNext ==
    \/ \E length \in MessageLengths :
          /\ nextId.conversations < 2 * MaxProfileMessages
          /\ requests = {}
          /\ tasks = {} \/ nextId.conversations = 2 * MaxProfileMessages - 1
          /\ SendMessageBegin("u1", length)
    \/ \E req \in requests : SendMessageEnd(req)
    \/ \E task \in tasks, detached \in BOOLEAN : TaskStart(task, detached)
    \/ \E task \in tasks, analysis \in ProfileAnalyses, detached \in BOOLEAN :
          TaskFinish(task, analysis, detached)
    \/ ResetUserProfile("u1")
    \/ \E primary \in Primaries(facts, "u1") : consolidate_memory("u1", primary, NoFault)

ProfileSpec == Init /\ [][ProfileNext]_vars

(* C21: the committed topics_of_interest and expertise_areas of a profile
   only grow over learning-update cycles and consolidation runs, however
   they interleave: every step keeps every element of both sets, except a
   reset_user_profile of the user, which empties them. *)
C21_LearnedSetsGrowOnly ==
    [][\A u \in DOMAIN profiles :
          \/ /\ u \in DOMAIN profiles'
             /\ profiles[u].topics_of_interest \subseteq profiles'[u].topics_of_interest
             /\ profiles[u].expertise_areas \subseteq profiles'[u].expertise_areas
          \/ /\ ResetUserProfile(u)
             /\ profiles'[u].topics_of_interest = {}
             /\ profiles'[u].expertise_areas = {}]_vars

(* Manual learning updates between the exchanges of two users *)
ManualTriggerNext ==
    \/ \E u \in Users, length \in MessageLengths :
          /\ nextId.conversations < 2 * MaxManualMessages
          /\ requests = {} /\ tasks = {}
          /\ SendMessageBegin(u, length)
    \/ \E req \in requests : SendMessageFail(req)
    \/ \E req \in requests : SendMessageEnd(req)
    \/ \E task \in tasks, detached \in BOOLEAN : TaskStart(task, detached)
    \/ \E u \in Users, analysis \in Analyses : TriggerLearningUpdate(u, analysis)

ManualTriggerSpec == Init /\ [][ManualTriggerNext]_vars

(* C30: a trigger-update request that answers "Learning update triggered
   successfully" has run process_new_conversations for the user: the profile
   row exists (it is loaded or created before the message-count trigger is
   evaluated) and its avg_message_length has moved a fifth of the way to the
   average length of the user messages among the turns handed over. *)
C30_ManualTriggerRunsPipeline ==
    [][\A u \in Users, analysis \in Analyses :
          (TriggerLearningUpdate(u, analysis) /\ retrieved'.result # <<>>) =>
            LET found == NewestTurns(convs, u, TriggerLimit)
                user_messages == SelectSeq(found, LAMBDA c : c.message_type = "user")
                before == IF u \in DOMAIN profiles THEN profiles[u].avg_message_length
                          ELSE 0
                sample == SumField(user_messages, DOMAIN user_messages, "length")
                              \div Len(user_messages)
            IN  /\ u \in DOMAIN profiles'
                /\ Len(user_messages) > 0 =>
                      profiles'[u].avg_message_length =
                          (2 * sample * Scale + 8 * before) \div 10]_vars

(* The summaries of a user whose messages went unanswered: the user turns
   are stored, no profile row exists, and consolidation runs commit. *)
SummaryNext ==
    \/ now < MaxSummaryHours /\ Elapse
    \/ \E length \in MessageLengths :
          /\ now <= MaxSendHour
          /\ nextId.conversations <= MaxSummaryMessages
          /\ requests = {}
          /\ SendMessageBegin("u1", length)
    \/ \E req \in requests : SendMessageFail(req)
    \/ \E primary \in Primaries(facts, "u1") : consolidate_memory("u1", primary, NoFault)

SummarySpec == Init /\ [][SummaryNext]_vars

(* C24: no conversation turn of a user is covered by more than one summary
   created by consolidation, however the consolidation runs are spaced in
   time: a run creates no summary while an existing one covers the recent
   window. *)
C24_NoTurnSummarizedTwice ==
    \A x, y \in summaries :
        (x # y /\ x.user_id = y.user_id) => x.conversation_ids \cap y.conversation_ids = {}

Next ==
    \/ \E length \in MessageLengths :
          nextId.conversations < 2 * MaxMessages /\ SendMessageBegin("u1", length)
    \/ \E req \in requests : SendMessageEnd(req)
    \/ \E task \in tasks, detached \in BOOLEAN : TaskStart(task, detached)
    \/ \E task \in tasks, analysis \in Analyses, detached \in BOOLEAN :
          TaskFinish(task, analysis, detached)

Spec == Init /\ [][Next]_vars

(* C2: a learning-update cycle creates a fact record only for an identity
   (learning_type, key) of which the user has no active record; for an
   identity the user already holds actively, the record is reinforced and
   none is created. *)
C2_CreateOrReinforce ==
    [][\A task \in tasks, analysis \in Analyses, detached \in BOOLEAN :
          TaskFinish(task, analysis, detached) =>
              \A i \in DOMAIN facts' \ DOMAIN facts :
                  \A j \in ActiveIds(facts, task.user_id) :
                      GroupKey(facts[j]) # GroupKey(facts'[i])]_vars

(* C6: at any time at most one learning-update cycle of a user is in flight
   (a consolidation run has no point of suspension). *)
C6_OneUnitOfWorkPerUser ==
    \A u \in Users :
        Cardinality({task \in tasks : task.user_id = u /\ task.pc = "analysing"}) <= 1

(* C18: the background task of an exchange performs a learning-update
   cycle if and only if that exchange brought the user's total_messages to
   a multiple of LEARNING_UPDATE_INTERVAL, however the task is delayed with
   respect to later exchanges of the user. *)
C18_CycleOnMultiples ==
    [][\A task \in tasks, detached \in BOOLEAN :
          TaskStart(task, detached) =>
              ((\E started \in tasks' : started.id = task.id /\ started.pc = "analysing")
                 <=> task.total_messages % LEARNING_UPDATE_INTERVAL = 0)]_vars

AnalysisColumns ==
    {"personal_facts", "communication_preferences", "topics_of_interest",
     "expertise_areas", "formality_score", "preferred_response_length"}

(* C8: a learning-update cycle whose analysis failed, did not parse, or came
   back with fields missing or wrongly shaped commits no change to the fact
   records nor to the analysis-derived columns of the profile. *)
C8_BadAnalysisCommitsNothing ==
    [][\A task \in tasks, detached \in BOOLEAN :
          \A analysis \in {FailedAnalysis, MissingFieldsAnalysis, WrongShapeAnalysis} :
              TaskFinish(task, analysis, detached) =>
                  /\ facts' = facts
                  /\ \A c \in AnalysisColumns :
                        profiles'[task.user_id][c] = profiles[task.user_id][c]]_vars

-----------------------------------------------------------------------------
(* A long run of exchanges of one user within a day, each sent after the
   previous one was processed. The event loop runs every background task it
   was given and every request is answered, so the steps of the pipeline are
   taken as long as one is possible. Once the task of the last turn sent has
   completed nothing is left to run: the program starts no timer and no
   periodic job, it acts on requests only. *)

TriggerNext ==
    \/ \E length \in MessageLengths :
          /\ nextId.conversations < 2 * MaxTriggerMessages
          /\ requests = {} /\ tasks = {}
          /\ SendMessageBegin("u1", length)
    \/ \E req \in requests : SendMessageEnd(req)
    \/ \E task \in tasks, detached \in BOOLEAN : TaskStart(task, detached)
    \/ \E task \in tasks, detached \in BOOLEAN : TaskFinish(task, FailedAnalysis, detached)

TriggerSpec == Init /\ [][TriggerNext]_vars /\ WF_vars(TriggerNext)

(* C17: whenever a turn of a user is being processed (its background task
   is pending) while the user has more than 100 messages in the last 24 hours
   or more than 200 active facts, a consolidation run for that user
   eventually completes. *)
C17_VolumeTriggersConsolidation ==
    ((\E task \in tasks : task.user_id = "u1")
        /\ should_consolidate_memory(convs, facts, "u1", now))
    ~> ("u1" \in consolidated)

====
